---- MODULE Spec2Model ----
(***************************************************************************)
(* The two FastAPI services of the repository as one state machine:        *)
(*   - "Upload to cloud/main.py": POST /upload/, GET /status/{filename},   *)
(*     the background task upload_to_gcs, the uploads table and the        *)
(*     logging middleware log_request_response;                            *)
(*   - "SendEmail/main.py": POST /send-email/, the background task         *)
(*     send_email, the email_logs collection and the logging middleware    *)
(*     log_requests_to_mongodb.                                            *)
(* One HTTP exchange is one entry of reqs, under its route; its background  *)
(* task (if the handler scheduled one) is the entry of tasks of that name.  *)
(* Every await of the source is a step boundary; every call to a store     *)
(* (PostgreSQL, MongoDB) or to an external service (GCS, SMTP) returns or  *)
(* raises, chosen by the environment.                                      *)
(* Spec is the two services serving; UploadSpec the upload service alone;  *)
(* LifeSpec adds the startup and the shutdown of the processes; AuditSpec  *)
(* follows one exchange through a middleware on the bytes of its bodies.   *)
(***************************************************************************)
EXTENDS Integers, Sequences, FiniteSets, Bags, TLC

\* Number of HTTP exchanges the clients start, both services together.
MaxReq == 2

\* Number of calls to a store (PostgreSQL, MongoDB) that raise.
MaxFaults == 1

\* The filenames the clients ask the status of: two that differ only by
\* space/underscore (and hold two spaces, so that replacing one occurrence
\* differs from replacing all), and one unrelated name.
FileNames == { <<" ", " ">>, <<"_", "_">>, <<"a">> }

\* The filenames the clients upload.
UploadNames == { <<" ", " ">>, <<"a">> }

\* The bytes of every uploaded file (file_size is its length).
FileContent == <<"x">>

\* os.getenv("GCS_BUCKET_NAME")
bucket_name == "bucket"

\* Python's None / JSON null, for values that are character sequences.
None == << >>

\* The three endpoints.
Routes == { "POST /upload/", "GET /status/", "POST /send-email/" }

\* Names of exchanges: the k-th exchange of a route is <<route, k>>.
Requests == Routes \X (1..MaxReq)

----------------------------------------------------------------------------
(* Pure helpers *)

\* str.replace(old, new) on a sequence of characters: every occurrence.
RECURSIVE replace(_, _, _)
replace(s, old, new) ==
    IF s = << >> THEN << >>
    ELSE <<(IF Head(s) = old THEN new ELSE Head(s))>> \o replace(Tail(s), old, new)

\* f"https://storage.googleapis.com/{bucket_name}/{filename}"
cloud_url_of(filename) ==
    <<"https://storage.googleapis.com/", bucket_name, "/">> \o filename

\* Response bodies (JSON objects as records).
UploadAck(filename) ==
    [message |-> "File is being uploaded...", filename |-> filename]

EmailAck(task_id) ==
    [message |-> "Email has been scheduled to be sent.", task_id |-> task_id]

NotFoundBody == [error |-> "File not found or error uploading file"]

NoResponse == [status_code |-> 0, body |-> [none |-> TRUE]]

\* What the client gets when an exception propagates out of the middleware.
ServerError == [status_code |-> 500, body |-> [detail |-> "Internal Server Error"]]

Ok(body) == [status_code |-> 200, body |-> body]

----------------------------------------------------------------------------
(* The uploads table *)

\* INSERT ... VALUES (filename, ..., len(file_content), cloud_url, 'success')
INSERT_uploads_as_success(rows, filename, file_content) ==
    Append(rows, [id        |-> Len(rows) + 1,
                  filename  |-> filename,
                  file_size |-> Len(file_content),
                  cloud_url |-> cloud_url_of(filename),
                  status    |-> "success"])

\* INSERT INTO uploads (filename, timestamp, file_size, cloud_url, status)
\* VALUES ($1, $2, $3, $4, 'uploading'); id is SERIAL.  The table has no
\* unique constraint on filename.
INSERT_uploads(rows, filename, file_content) ==
    Append(rows, [id        |-> Len(rows) + 1,
                  filename  |-> filename,
                  file_size |-> Len(file_content),
                  cloud_url |-> cloud_url_of(filename),
                  status    |-> "uploading"])

\* UPDATE uploads SET status = <status> WHERE filename = $1
UPDATE_uploads(rows, filename, status) ==
    [i \in DOMAIN rows |->
        IF rows[i].filename = filename
        THEN [rows[i] EXCEPT !.status = status]
        ELSE rows[i]]

\* SELECT status, cloud_url FROM uploads WHERE filename = $1: the rows the
\* query matches.  fetchrow returns one of them; without ORDER BY which one is
\* up to the database.
fetchrow(rows, filename) == { i \in DOMAIN rows : rows[i].filename = filename }

\* get_upload_status without the conditional on the status.
status_bodies_always_url(filename, rows) ==
    LET fn == replace(filename, " ", "_")
        result == fetchrow(rows, fn)
    IN  IF result = {} THEN { NotFoundBody }
        ELSE { [filename  |-> fn,
                status    |-> rows[i].status,
                cloud_url |-> rows[i].cloud_url] : i \in result }

\* get_upload_status without the normalisation of its argument.
status_bodies_raw(filename, rows) ==
    LET fn == filename
        result == fetchrow(rows, fn)
    IN  IF result = {} THEN { NotFoundBody }
        ELSE { [filename  |-> fn,
                status    |-> rows[i].status,
                cloud_url |-> IF rows[i].status = "success"
                              THEN rows[i].cloud_url ELSE None] : i \in result }

\* The bodies get_upload_status(filename) can return when the table is rows.
status_bodies(filename, rows) ==
    LET fn == replace(filename, " ", "_")
        result == fetchrow(rows, fn)
    IN  IF result = {} THEN { NotFoundBody }
        ELSE { [filename  |-> fn,
                status    |-> rows[i].status,
                cloud_url |-> IF rows[i].status = "success"
                              THEN rows[i].cloud_url ELSE None] : i \in result }

----------------------------------------------------------------------------
(* State *)

VARIABLES
    reqs,              \* the HTTP exchanges, in order of arrival
    tasks,             \* Task(r): the background task scheduled by exchange r
    uploads,           \* PostgreSQL table uploads
    email_logs,        \* MongoDB collection logs_db.email_logs
    upload_file_logs,  \* MongoDB collection upload_file_logs.upload_file_logs
    request_logs,      \* MongoDB collection logs_db.request_logs
    faults,            \* number of store calls that have raised
    app,               \* per service: the phase of the process and its handles
    audit              \* one exchange seen by the middleware, body bytes included

vars == <<reqs, tasks, uploads, email_logs, upload_file_logs, request_logs, faults,
          app, audit>>

\* collection.insert_one(document): a collection is a bag of documents.
insert_one(collection, document) == collection (+) SetToBag({document})

\* A call to a store raises.
Raises == faults < MaxFaults /\ faults' = faults + 1

\* A call to a store returns.
Returns == faults' = faults

NoTask == [pc |-> "none", filename |-> None, attempts |-> 0,
           outcome |-> "none", row |-> 0]

\* A resource handle: how many times it was created and whether it is open.
NotCreated == [created |-> 0, open |-> FALSE]

Created(handle) == [created |-> handle.created + 1, open |-> TRUE]

Closed(handle) == [handle EXCEPT !.open = FALSE]

\* The two processes once their modules are imported: the module-level
\* storage_client (upload service) and client (email service) exist; the
\* lifespan of the upload service has not started; the email service has no
\* lifespan and serves at once.
AfterImport ==
    [upload |-> [phase          |-> "startup",
                 pool           |-> NotCreated,
                 client         |-> NotCreated,
                 storage_client |-> Created(NotCreated)],
     email  |-> [phase  |-> "serving",
                 client |-> Created(NotCreated)]]

\* lifespan up to its yield: get_db_pool(), get_mongo_client(), CREATE TABLE
\* IF NOT EXISTS, app.state.pool / app.state.client.
AfterStartup(a) ==
    [a EXCEPT !.upload.phase  = "serving",
              !.upload.pool   = Created(@),
              !.upload.client = Created(@)]

\* No exchange seen in detail by the middleware.
NoAudit == [pc |-> "none"]

\* Both services are serving and have served nothing.
Init ==
    /\ reqs = [route \in Routes |-> << >>]
    /\ tasks = [route \in Routes |-> << >>]
    /\ uploads = << >>
    /\ email_logs = EmptyBag
    /\ upload_file_logs = EmptyBag
    /\ request_logs = EmptyBag
    /\ faults = 0
    /\ app = AfterStartup(AfterImport)
    /\ audit = NoAudit

\* Exchange r has arrived.
Arrival(r) == r[2] <= Len(reqs[r[1]])

\* The exchanges that have arrived, by route, and how many they are.
Of(route) == { <<route, k>> : k \in DOMAIN reqs[route] }

Submitted == Of("POST /upload/")

Queries == Of("GET /status/")

Emails == Of("POST /send-email/")

Live == Submitted \cup Queries \cup Emails

Arrived == Len(reqs["POST /upload/"]) + Len(reqs["GET /status/"])
             + Len(reqs["POST /send-email/"])

Req(r) == reqs[r[1]][r[2]]

Task(r) == tasks[r[1]][r[2]]

Exchange(route, arg) ==
    [route |-> route, arg |-> arg, pc |-> "call_next",
     resp |-> NoResponse, got |-> NoResponse]

UploadRoutes == { "POST /upload/", "GET /status/" }

\* The event loop of the upload service is inside the synchronous call
\* blob.upload_from_string of some task: no coroutine of that service runs
\* until the call returns or raises.
Blocked ==
    \E k \in DOMAIN tasks["POST /upload/"] :
        tasks["POST /upload/"][k].pc = "in_upload_from_string"

----------------------------------------------------------------------------
(* A client starts an exchange: the middleware runs up to call_next. *)

\* POST /upload/ with a file part named file.
PostUpload ==
    /\ app.upload.phase = "serving"
    /\ Arrived < MaxReq
    /\ ~Blocked
    /\ \E file \in UploadNames :
          reqs' = [reqs EXCEPT !["POST /upload/"] =
                      Append(@, Exchange("POST /upload/", file))]
    /\ tasks' = [tasks EXCEPT !["POST /upload/"] = Append(@, NoTask)]
    /\ UNCHANGED <<uploads, email_logs, upload_file_logs, request_logs, faults>>
    /\ UNCHANGED <<app, audit>>

\* GET /status/{filename}
GetStatus ==
    /\ app.upload.phase = "serving"
    /\ Arrived < MaxReq
    /\ ~Blocked
    /\ \E filename \in FileNames :
          reqs' = [reqs EXCEPT !["GET /status/"] =
                      Append(@, Exchange("GET /status/", filename))]
    /\ tasks' = [tasks EXCEPT !["GET /status/"] = Append(@, NoTask)]
    /\ UNCHANGED <<uploads, email_logs, upload_file_logs, request_logs, faults>>
    /\ UNCHANGED <<app, audit>>

\* POST /send-email/ with a body that is an EmailSchema.
PostSendEmail ==
    /\ app.email.phase = "serving"
    /\ Arrived < MaxReq
    /\ reqs' = [reqs EXCEPT !["POST /send-email/"] =
                   Append(@, Exchange("POST /send-email/", None))]
    /\ tasks' = [tasks EXCEPT !["POST /send-email/"] = Append(@, NoTask)]
    /\ UNCHANGED <<uploads, email_logs, upload_file_logs, request_logs, faults>>
    /\ UNCHANGED <<app, audit>>

----------------------------------------------------------------------------
(* Endpoint handlers, run inside call_next. *)

\* upload_file storing the client's filename as it came.
upload_file_raw(r) ==
    /\ Arrival(r)
    /\ ~Blocked
    /\ Req(r).route = "POST /upload/"
    /\ Req(r).pc = "call_next"
    /\ LET filename == Req(r).arg
       IN  /\ tasks' = [tasks EXCEPT ![r[1]][r[2]] =
                   [NoTask EXCEPT !.pc = "INSERT", !.filename = filename]]
           /\ reqs' = [reqs EXCEPT ![r[1]][r[2]].pc = "insert_one",
                                   ![r[1]][r[2]].resp = Ok(UploadAck(filename))]
    /\ UNCHANGED <<uploads, email_logs, upload_file_logs, request_logs, faults>>
    /\ UNCHANGED <<app, audit>>

\* upload_file: normalise the filename, read the bytes, add the background
\* task, return the acknowledgment.  It writes nothing to the uploads table.
upload_file(r) ==
    /\ Arrival(r)
    /\ ~Blocked
    /\ Req(r).route = "POST /upload/"
    /\ Req(r).pc = "call_next"
    /\ LET filename == replace(Req(r).arg, " ", "_")
       IN  /\ tasks' = [tasks EXCEPT ![r[1]][r[2]] =
                   [NoTask EXCEPT !.pc = "INSERT", !.filename = filename]]
           /\ reqs' = [reqs EXCEPT ![r[1]][r[2]].pc = "insert_one",
                                   ![r[1]][r[2]].resp = Ok(UploadAck(filename))]
    /\ UNCHANGED <<uploads, email_logs, upload_file_logs, request_logs, faults>>
    /\ UNCHANGED <<app, audit>>

\* get_upload_status: fetchrow returns a row (or none), or pool.acquire /
\* fetchrow raises and the exception leaves the handler.
get_upload_status(r) ==
    /\ Arrival(r)
    /\ ~Blocked
    /\ Req(r).route = "GET /status/"
    /\ Req(r).pc = "call_next"
    /\ \/ /\ Returns
          /\ \E body \in status_bodies(Req(r).arg, uploads) :
                reqs' = [reqs EXCEPT ![r[1]][r[2]].pc = "insert_one", ![r[1]][r[2]].resp = Ok(body)]
       \/ /\ Raises
          /\ reqs' = [reqs EXCEPT ![r[1]][r[2]].pc = "error", ![r[1]][r[2]].got = ServerError]
    /\ UNCHANGED <<tasks, uploads, email_logs, upload_file_logs, request_logs>>
    /\ UNCHANGED <<app, audit>>

\* send_email_endpoint: task_id = str(uuid4()), modelled by the exchange's
\* name (unique); add the background task, return the acknowledgment.
send_email_endpoint(r) ==
    /\ Arrival(r)
    /\ Req(r).route = "POST /send-email/"
    /\ Req(r).pc = "call_next"
    /\ tasks' = [tasks EXCEPT ![r[1]][r[2]] = [NoTask EXCEPT !.pc = "send_message"]]
    /\ reqs' = [reqs EXCEPT ![r[1]][r[2]].pc = "insert_one",
                            ![r[1]][r[2]].resp = Ok(EmailAck(r))]
    /\ UNCHANGED <<uploads, email_logs, upload_file_logs, request_logs, faults>>
    /\ UNCHANGED <<app, audit>>

----------------------------------------------------------------------------
(* The logging middlewares, after call_next has returned the response. *)

AuditRecord(r) == [req |-> r, route |-> Req(r).route, response |-> Req(r).resp]

\* Upload service: buffer the body, insert_one the log entry, then return a
\* new Response with the buffered body to the client.  If insert_one raises,
\* the exception leaves the middleware and no Response is returned.
log_request_response(r) ==
    /\ Arrival(r)
    /\ ~Blocked
    /\ Req(r).route \in UploadRoutes
    /\ Req(r).pc = "insert_one"
    /\ \/ /\ Returns
          /\ upload_file_logs' = insert_one(upload_file_logs, AuditRecord(r))
          /\ reqs' = [reqs EXCEPT ![r[1]][r[2]].pc = "done", ![r[1]][r[2]].got = Req(r).resp]
       \/ /\ Raises
          /\ upload_file_logs' = upload_file_logs
          /\ reqs' = [reqs EXCEPT ![r[1]][r[2]].pc = "error", ![r[1]][r[2]].got = ServerError]
    /\ UNCHANGED <<tasks, uploads, email_logs, request_logs>>
    /\ UNCHANGED <<app, audit>>

\* Email service: the same steps on logs_collection.
log_requests_to_mongodb(r) ==
    /\ Arrival(r)
    /\ Req(r).route = "POST /send-email/"
    /\ Req(r).pc = "insert_one"
    /\ \/ /\ Returns
          /\ request_logs' = insert_one(request_logs, AuditRecord(r))
          /\ reqs' = [reqs EXCEPT ![r[1]][r[2]].pc = "done", ![r[1]][r[2]].got = Req(r).resp]
       \/ /\ Raises
          /\ request_logs' = request_logs
          /\ reqs' = [reqs EXCEPT ![r[1]][r[2]].pc = "error", ![r[1]][r[2]].got = ServerError]
    /\ UNCHANGED <<tasks, uploads, email_logs, upload_file_logs>>
    /\ UNCHANGED <<app, audit>>

----------------------------------------------------------------------------
(* Background task upload_to_gcs(file_content, filename, content_type).     *)
(* It is run by the handler's own response once that response has been     *)
(* handed to the middleware, so its steps interleave with the middleware's  *)
(* insert_one and return: the Response the middleware returns carries no    *)
(* background task.                                                         *)

\* upload_to_gcs with the INSERT inside a try that swallows its exception: the
\* task goes on to the upload without a row.
upload_to_gcs_insert_swallowed(r) ==
    /\ Arrival(r)
    /\ ~Blocked
    /\ Task(r).pc = "INSERT"
    /\ \/ /\ Returns
          /\ uploads' = INSERT_uploads(uploads, Task(r).filename, FileContent)
          /\ tasks' = [tasks EXCEPT ![r[1]][r[2]].pc = "upload_from_string",
                                    ![r[1]][r[2]].row = Len(uploads) + 1]
       \/ /\ Raises
          /\ uploads' = uploads
          /\ tasks' = [tasks EXCEPT ![r[1]][r[2]].pc = "upload_from_string"]
    /\ UNCHANGED <<reqs, email_logs, upload_file_logs, request_logs>>
    /\ UNCHANGED <<app, audit>>

\* async with pool.acquire(): INSERT the 'uploading' row.  Outside the try:
\* if it raises, the exception leaves upload_to_gcs.
upload_to_gcs_insert(r) ==
    /\ Arrival(r)
    /\ ~Blocked
    /\ Task(r).pc = "INSERT"
    /\ \/ /\ Returns
          /\ uploads' = INSERT_uploads(uploads, Task(r).filename, FileContent)
          /\ tasks' = [tasks EXCEPT ![r[1]][r[2]].pc = "upload_from_string",
                                    ![r[1]][r[2]].row = Len(uploads) + 1]
       \/ /\ Raises
          /\ uploads' = uploads
          /\ tasks' = [tasks EXCEPT ![r[1]][r[2]].pc = "raised"]
    /\ UNCHANGED <<reqs, email_logs, upload_file_logs, request_logs>>
    /\ UNCHANGED <<app, audit>>

\* blob.upload_from_string(...) is entered: a synchronous call inside the
\* coroutine, so the event loop stays in it until it returns or raises.
upload_to_gcs_upload(r) ==
    /\ Arrival(r)
    /\ ~Blocked
    /\ Task(r).pc = "upload_from_string"
    /\ tasks' = [tasks EXCEPT ![r[1]][r[2]].pc = "in_upload_from_string",
                              ![r[1]][r[2]].attempts = @ + 1]
    /\ UNCHANGED <<reqs, uploads, email_logs, upload_file_logs, request_logs, faults>>
    /\ UNCHANGED <<app, audit>>

\* blob.upload_from_string returns or raises.
upload_to_gcs_upload_end(r) ==
    /\ Arrival(r)
    /\ Task(r).pc = "in_upload_from_string"
    /\ \/ tasks' = [tasks EXCEPT ![r[1]][r[2]].pc = "UPDATE_success",
                                 ![r[1]][r[2]].outcome = "ok"]
       \/ tasks' = [tasks EXCEPT ![r[1]][r[2]].pc = "UPDATE_failed",
                                 ![r[1]][r[2]].outcome = "raised"]
    /\ UNCHANGED <<reqs, uploads, email_logs, upload_file_logs, request_logs, faults>>
    /\ UNCHANGED <<app, audit>>

\* Inside the try: UPDATE ... SET status = 'success'.  If it raises, the
\* except clause runs.
upload_to_gcs_update_success(r) ==
    /\ Arrival(r)
    /\ ~Blocked
    /\ Task(r).pc = "UPDATE_success"
    /\ \/ /\ Returns
          /\ uploads' = UPDATE_uploads(uploads, Task(r).filename, "success")
          /\ tasks' = [tasks EXCEPT ![r[1]][r[2]].pc = "done"]
       \/ /\ Raises
          /\ uploads' = uploads
          /\ tasks' = [tasks EXCEPT ![r[1]][r[2]].pc = "UPDATE_failed"]
    /\ UNCHANGED <<reqs, email_logs, upload_file_logs, request_logs>>
    /\ UNCHANGED <<app, audit>>

\* The except clause: UPDATE ... SET status = 'failed'.  If it raises, the
\* exception leaves upload_to_gcs.
upload_to_gcs_update_failed(r) ==
    /\ Arrival(r)
    /\ ~Blocked
    /\ Task(r).pc = "UPDATE_failed"
    /\ \/ /\ Returns
          /\ uploads' = UPDATE_uploads(uploads, Task(r).filename, "failed")
          /\ tasks' = [tasks EXCEPT ![r[1]][r[2]].pc = "done"]
       \/ /\ Raises
          /\ uploads' = uploads
          /\ tasks' = [tasks EXCEPT ![r[1]][r[2]].pc = "raised"]
    /\ UNCHANGED <<reqs, email_logs, upload_file_logs, request_logs>>
    /\ UNCHANGED <<app, audit>>

----------------------------------------------------------------------------
(* Background task send_email(email, task_id). *)

\* await fast_mail.send_message(message) is entered: the SMTP attempt begins.
send_email_begin(r) ==
    /\ Arrival(r)
    /\ Task(r).pc = "send_message"
    /\ tasks' = [tasks EXCEPT ![r[1]][r[2]].pc = "sending", ![r[1]][r[2]].attempts = @ + 1]
    /\ UNCHANGED <<reqs, uploads, email_logs, upload_file_logs, request_logs, faults>>
    /\ UNCHANGED <<app, audit>>

\* send_message returns or raises.
send_email_end(r) ==
    /\ Arrival(r)
    /\ Task(r).pc = "sending"
    /\ \/ tasks' = [tasks EXCEPT ![r[1]][r[2]].pc = "insert_success", ![r[1]][r[2]].outcome = "ok"]
       \/ tasks' = [tasks EXCEPT ![r[1]][r[2]].pc = "insert_failed", ![r[1]][r[2]].outcome = "raised"]
    /\ UNCHANGED <<reqs, uploads, email_logs, upload_file_logs, request_logs, faults>>
    /\ UNCHANGED <<app, audit>>

\* Inside the try: insert_one({task_id, email, status: "success"}).  If it
\* raises, the except clause runs.
send_email_log_success(r) ==
    /\ Arrival(r)
    /\ Task(r).pc = "insert_success"
    /\ \/ /\ Returns
          /\ email_logs' = insert_one(email_logs, [task_id |-> r, status |-> "success"])
          /\ tasks' = [tasks EXCEPT ![r[1]][r[2]].pc = "done"]
       \/ /\ Raises
          /\ email_logs' = email_logs
          /\ tasks' = [tasks EXCEPT ![r[1]][r[2]].pc = "insert_failed"]
    /\ UNCHANGED <<reqs, uploads, upload_file_logs, request_logs>>
    /\ UNCHANGED <<app, audit>>

\* The except clause: insert_one({task_id, email, status: "failed", error}).
\* If it raises, the exception leaves send_email.
send_email_log_failed(r) ==
    /\ Arrival(r)
    /\ Task(r).pc = "insert_failed"
    /\ \/ /\ Returns
          /\ email_logs' = insert_one(email_logs, [task_id |-> r, status |-> "failed"])
          /\ tasks' = [tasks EXCEPT ![r[1]][r[2]].pc = "done"]
       \/ /\ Raises
          /\ email_logs' = email_logs
          /\ tasks' = [tasks EXCEPT ![r[1]][r[2]].pc = "raised"]
    /\ UNCHANGED <<reqs, uploads, upload_file_logs, request_logs>>
    /\ UNCHANGED <<app, audit>>

----------------------------------------------------------------------------
(* Startup and shutdown of the two processes *)

\* No exchange of the routes is in progress and no background task of theirs
\* is running: the server shuts down gracefully only then.
Quiescent(routes) ==
    \A route \in routes : \A k \in DOMAIN reqs[route] :
        /\ reqs[route][k].pc \in {"done", "error"}
        /\ tasks[route][k].pc \in {"none", "done", "raised"}

\* Upload service: lifespan before its yield.
lifespan_startup ==
    /\ app.upload.phase = "startup"
    /\ app' = AfterStartup(app)
    /\ UNCHANGED <<reqs, tasks, uploads, email_logs, upload_file_logs, request_logs,
                   faults, audit>>

\* Upload service: lifespan after its yield, await pool.close() and nothing
\* else.
lifespan_shutdown ==
    /\ app.upload.phase = "serving"
    /\ Quiescent(UploadRoutes)
    /\ app' = [app EXCEPT !.upload.phase = "stopped",
                          !.upload.pool  = Closed(@)]
    /\ UNCHANGED <<reqs, tasks, uploads, email_logs, upload_file_logs, request_logs,
                   faults, audit>>

\* Email service: app = FastAPI() has no lifespan and no shutdown handler;
\* the server stops and nothing is closed.
email_shutdown ==
    /\ app.email.phase = "serving"
    /\ Quiescent({"POST /send-email/"})
    /\ app' = [app EXCEPT !.email.phase = "stopped"]
    /\ UNCHANGED <<reqs, tasks, uploads, email_logs, upload_file_logs, request_logs,
                   faults, audit>>

----------------------------------------------------------------------------
(* The logging middlewares on the bytes of the bodies.  A body is a sequence *)
(* of bytes; the handler behind call_next is any handler of the service     *)
(* (an endpoint, the documentation pages, the 404 and 422 responses).       *)

\* Longest body, in bytes.
MaxBody == 2

\* "1" is a digit, "x" a letter, "0xFF" a byte that no UTF-8 text holds.
Bytes == { "1", "x", "0xFF" }

RECURSIVE SeqsUpTo(_)
SeqsUpTo(n) ==
    IF n = 0 THEN { << >> }
    ELSE LET shorter == SeqsUpTo(n - 1)
         IN  shorter \cup { Append(b, c) : b \in shorter, c \in Bytes }

Bodies == SeqsUpTo(MaxBody)

\* An exception raised by an expression.
Raised == [raised |-> TRUE]

\* bytes.decode("utf-8"): the text, or UnicodeDecodeError.
decode(body) ==
    IF \E i \in DOMAIN body : body[i] = "0xFF" THEN Raised
    ELSE [text |-> body]

\* json.loads(text): the value of a JSON document (here a number written in
\* digits), or JSONDecodeError.
json_loads(text) ==
    IF text # << >> /\ \A i \in DOMAIN text : text[i] = "1"
    THEN [number |-> Len(text)]
    ELSE Raised

\* json.loads(body.decode("utf-8")) if body else None
json_body(body) ==
    IF body = << >> THEN [none |-> TRUE]
    ELSE LET decoded == decode(body)
         IN  IF decoded = Raised THEN Raised ELSE json_loads(decoded.text)

\* Upload service, lines 126-130: the try around the request body.
request_info_body(body) ==
    IF json_body(body) = Raised THEN [text |-> "Non-JSON body"] ELSE json_body(body)

\* Upload service, line 140: the response body, outside any try.
response_info_body(response_body) == json_body(response_body)

\* Upload service: log_entry, or the exception raised while building it.
upload_log_entry(request_body, response) ==
    IF response_info_body(response.body) = Raised THEN Raised
    ELSE [request  |-> [body |-> request_info_body(request_body)],
          response |-> [status_code |-> response.status_code,
                        body        |-> response_info_body(response.body)]]

\* Email service, lines 47-56: log_entry, or the exception raised by one of
\* the two decode calls.
email_log_entry(request_body, response) ==
    IF decode(request_body) = Raised \/ decode(response.body) = Raised THEN Raised
    ELSE [request_body    |-> decode(request_body),
          response_status |-> response.status_code,
          response_body   |-> decode(response.body)]

\* An exchange as the middleware of a service sees it.
AuditExchange(service, request_body, response_body) ==
    [service |-> service, request_body |-> request_body,
     handler_body |-> response_body,
     pc |-> "request.body", resp |-> NoResponse, got |-> NoResponse]

\* await request.body()
middleware_request_body ==
    /\ audit.pc = "request.body"
    /\ audit' = [audit EXCEPT !.pc = "call_next"]
    /\ UNCHANGED <<reqs, tasks, uploads, email_logs, upload_file_logs, request_logs,
                   faults, app>>

\* response = await call_next(request), and the body_iterator is drained.
middleware_call_next ==
    /\ audit.pc = "call_next"
    /\ audit' = [audit EXCEPT !.pc = "log_entry",
                              !.resp = Ok(audit.handler_body)]
    /\ UNCHANGED <<reqs, tasks, uploads, email_logs, upload_file_logs, request_logs,
                   faults, app>>

\* log_request_response from response_info to return Response(...).
log_request_response_bytes ==
    /\ audit.pc = "log_entry"
    /\ audit.service = "upload"
    /\ LET log_entry == upload_log_entry(audit.request_body, audit.resp)
       IN  IF log_entry = Raised
           THEN /\ audit' = [audit EXCEPT !.pc = "error", !.got = ServerError]
                /\ upload_file_logs' = upload_file_logs
           ELSE /\ upload_file_logs' = insert_one(upload_file_logs, log_entry)
                /\ audit' = [audit EXCEPT !.pc = "done", !.got = audit.resp]
    /\ UNCHANGED <<reqs, tasks, uploads, email_logs, request_logs, faults, app>>

\* log_requests_to_mongodb from log_entry to return Response(...).
log_requests_to_mongodb_bytes ==
    /\ audit.pc = "log_entry"
    /\ audit.service = "email"
    /\ LET log_entry == email_log_entry(audit.request_body, audit.resp)
       IN  IF log_entry = Raised
           THEN /\ audit' = [audit EXCEPT !.pc = "error", !.got = ServerError]
                /\ request_logs' = request_logs
           ELSE /\ request_logs' = insert_one(request_logs, log_entry)
                /\ audit' = [audit EXCEPT !.pc = "done", !.got = audit.resp]
    /\ UNCHANGED <<reqs, tasks, uploads, email_logs, upload_file_logs, faults, app>>

----------------------------------------------------------------------------
(* Specifications *)

\* The steps the upload service takes (everything but the arrival of a
\* request), for the k-th exchange of each of its routes.
UploadStep ==
    \E k \in 1..MaxReq :
        LET u == <<"POST /upload/", k>>
            g == <<"GET /status/", k>>
        IN  \/ upload_file(u)
            \/ get_upload_status(g)
            \/ log_request_response(u)
            \/ log_request_response(g)
            \/ upload_to_gcs_insert(u)
            \/ upload_to_gcs_upload(u)
            \/ upload_to_gcs_upload_end(u)
            \/ upload_to_gcs_update_success(u)
            \/ upload_to_gcs_update_failed(u)

\* The steps the email service takes.
EmailStep ==
    \E k \in 1..MaxReq :
        LET e == <<"POST /send-email/", k>>
        IN  \/ send_email_endpoint(e)
            \/ log_requests_to_mongodb(e)
            \/ send_email_begin(e)
            \/ send_email_end(e)
            \/ send_email_log_success(e)
            \/ send_email_log_failed(e)

\* The steps of the two services.
Step == UploadStep \/ EmailStep

Next ==
    \/ PostUpload
    \/ GetStatus
    \/ PostSendEmail
    \/ Step

Spec == Init /\ [][Next]_vars

\* The event loop runs every ready coroutine and every awaited call returns
\* or raises: no server step stays enabled forever without being taken.
FairSpec == Spec /\ WF_vars(Step)

\* The upload service alone: it is a process of its own, and nothing the
\* email service does reaches its table, its collection or its event loop.
UploadNext ==
    \/ PostUpload
    \/ GetStatus
    \/ UploadStep

UploadSpec == Init /\ [][UploadNext]_vars

\* The processes from import to shutdown: the upload service runs its
\* lifespan before it serves, and each service can shut down when idle.
LifeInit ==
    /\ reqs = [route \in Routes |-> << >>]
    /\ tasks = [route \in Routes |-> << >>]
    /\ uploads = << >>
    /\ email_logs = EmptyBag
    /\ upload_file_logs = EmptyBag
    /\ request_logs = EmptyBag
    /\ faults = 0
    /\ app = AfterImport
    /\ audit = NoAudit

LifeNext ==
    \/ lifespan_startup
    \/ lifespan_shutdown
    \/ email_shutdown
    \/ Next

LifeSpec == LifeInit /\ [][LifeNext]_vars

\* One exchange of either service with any request body and any response
\* body, followed through the middleware.
AuditInit ==
    /\ reqs = [route \in Routes |-> << >>]
    /\ tasks = [route \in Routes |-> << >>]
    /\ uploads = << >>
    /\ email_logs = EmptyBag
    /\ upload_file_logs = EmptyBag
    /\ request_logs = EmptyBag
    /\ faults = 0
    /\ app = AfterStartup(AfterImport)
    /\ \E service \in {"upload", "email"}, request_body \in Bodies, response_body \in Bodies :
          audit = AuditExchange(service, request_body, response_body)

AuditNext ==
    \/ middleware_request_body
    \/ middleware_call_next
    \/ log_request_response_bytes
    \/ log_requests_to_mongodb_bytes

AuditSpec == AuditInit /\ [][AuditNext]_vars

----------------------------------------------------------------------------
(* Vocabulary of the properties *)

\* Every request modelled is valid: one that fails FastAPI's validation never
\* reaches the handlers.  Submitted are the submissions (POST /upload/),
\* Queries the status queries, Emails the POST /send-email/ exchanges.

\* The endpoint handler of exchange r has run.
Handled(r) == Req(r).pc # "call_next"

\* The normalized form of each filename the clients use: every space replaced
\* by an underscore.
NormalOf == [f \in FileNames \cup UploadNames |-> replace(f, " ", "_")]

Normal(f) == NormalOf[f]

\* No earlier exchange submitted the filename of submission r.
FirstSubmission(r) ==
    \A k \in 1..(r[2] - 1) :
        LET q == <<r[1], k>>
        IN  Normal(Req(q).arg) # Normal(Req(r).arg)

\* The submissions, handled so far, of the filename f (normalized).
Submissions(f) == { q \in Submitted : Handled(q) /\ Task(q).filename = f }

UploadingBody(f) == [filename |-> f, status |-> "uploading", cloud_url |-> None]

SuccessBody(f) == [filename |-> f, status |-> "success", cloud_url |-> cloud_url_of(f)]

FailedBody(f) == [filename |-> f, status |-> "failed", cloud_url |-> None]

\* The acknowledgment the handler of a valid POST returns.
Acknowledgment(r) ==
    IF Req(r).route = "POST /upload/"
    THEN Ok(UploadAck(Normal(Req(r).arg)))
    ELSE Ok(EmailAck(r))

\* Number of documents of a collection written for exchange / task r.
AuditCount(r) ==
    LET coll == IF Req(r).route \in UploadRoutes THEN upload_file_logs ELSE request_logs
        mine == { d \in BagToSet(coll) : d.req = r }
    IN  BagCardinality([d \in mine |-> coll[d]])

EmailLogsOf(r) == { d \in BagToSet(email_logs) : d.task_id = r }

EmailLogCount(r) == BagCardinality([d \in EmailLogsOf(r) |-> email_logs[d]])

----------------------------------------------------------------------------
(* C1 *)

----------------------------------------------------------------------------
(* C2, C3, C4: what the stores eventually hold.  Each is stated on the     *)
(* state in which the background task has ended: from then on nothing of    *)
(* that task writes the store, so what the store holds then is what it      *)
(* "eventually" holds.                                                      *)

\* The background task of exchange r has ended: it returned or an exception
\* left it.
TaskEnded(r) == Task(r).pc \in {"done", "raised"}

\* GET /status of the filename of submission r can return the given status,
\* with the bucket URL when it is 'success' and with null otherwise.
StatusReturns(r, status) ==
    [filename  |-> Task(r).filename,
     status    |-> status,
     cloud_url |-> IF status = "success"
                   THEN cloud_url_of(Task(r).filename) ELSE None]
        \in status_bodies(Req(r).arg, uploads)

\* Submission r is the only submission of its filename.
OnlySubmission(r) == Submissions(Task(r).filename) = {r}

\* C2 (as claimed): for every submission whose object-store write completes
\* without error, GET /status/{filename} eventually returns status 'success'
\* with the bucket URL of the normalized filename.  For the only submission of
\* a filename: once its task has ended, GET /status returns 'success'.
C2_SuccessEventually ==
    \A r \in Submitted :
        (OnlySubmission(r) /\ TaskEnded(r) /\ Task(r).outcome = "ok")
            => StatusReturns(r, "success")

\* C3 (as claimed): for every submission whose object-store write raises,
\* GET /status/{filename} eventually returns status 'failed' with cloud_url
\* null, and the record does not stay 'uploading'.  For the only submission of
\* a filename: once its task has ended, GET /status returns 'failed'.
C3_FailedEventually ==
    \A r \in Submitted :
        (OnlySubmission(r) /\ TaskEnded(r) /\ Task(r).outcome = "raised")
            => StatusReturns(r, "failed")

\* C4 (as claimed): for every accepted POST /send-email/ that returned
\* task_id t, email_logs eventually holds exactly one record with task_id t,
\* of status 'success' or 'failed'.  Once the task has ended: exactly one.
C4_OneEmailLogEventually ==
    \A r \in Emails :
        (Req(r).pc = "done" /\ TaskEnded(r))
            => /\ EmailLogCount(r) = 1
               /\ \A d \in EmailLogsOf(r) : d.status \in {"success", "failed"}

----------------------------------------------------------------------------
(* C5, C6, C8 *)

\* C5 (as claimed): no exception leaves a background task (send_email,
\* upload_to_gcs).
C5_NoExceptionEscapes == \A r \in Live : Task(r).pc # "raised"

\* C6 (as claimed): when the external operation of a valid POST is attempted,
\* the client has already received that POST's acknowledgment.
C6_AckBeforeAttempt ==
    \A r \in Submitted \cup Emails :
        (Task(r).attempts > 0)
            => (Req(r).pc = "done" /\ Req(r).got = Acknowledgment(r))

\* C8 (as claimed): every HTTP exchange that has ended, with the handler's
\* response or with an error, has produced exactly one audit record.
C8_OneAuditRecord ==
    \A r \in Live : Req(r).pc \in {"done", "error"} => AuditCount(r) = 1

----------------------------------------------------------------------------
(* C7, C9, C10: the status endpoint *)

\* The handler of the GET /status/ exchange r returned a body.
StatusAnswered(r) == Req(r).resp # NoResponse

\* A body of the shape {filename, status, cloud_url}.
IsStatusBody(b) == DOMAIN b = {"filename", "status", "cloud_url"}

\* cloud_url is non-null only with status 'success'.
UrlOnlyOnSuccess(b) ==
    IsStatusBody(b) =>
        /\ b.cloud_url # None => b.status = "success"
        /\ b.status \in {"uploading", "failed"} => b.cloud_url = None

\* C7: GET /status/{filename} returns a non-null cloud_url only when the
\* status it returns is 'success'; with 'uploading' or 'failed' the returned
\* cloud_url is null, although the stored row always holds the URL.
C7_UrlOnlyOnSuccess ==
    /\ \A f \in FileNames : \A b \in status_bodies(f, uploads) : UrlOnlyOnSuccess(b)
    /\ \A r \in Queries : StatusAnswered(r) =>
          /\ UrlOnlyOnSuccess(Req(r).resp.body)
          /\ Req(r).pc = "done" => UrlOnlyOnSuccess(Req(r).got.body)
    /\ \A i \in DOMAIN uploads :
          uploads[i].cloud_url = cloud_url_of(uploads[i].filename)

\* C7 witness: a client has received 'failed' with cloud_url null for a
\* filename whose stored row holds the URL.
C7_Witness ==
    \E r \in Queries :
        /\ StatusAnswered(r) /\ Req(r).pc = "done"
        /\ IsStatusBody(Req(r).got.body)
        /\ Req(r).got.body.status = "failed"
        /\ Req(r).got.body.cloud_url = None
        /\ \E i \in DOMAIN uploads :
              /\ uploads[i].filename = Req(r).got.body.filename
              /\ uploads[i].status = "failed"
              /\ uploads[i].cloud_url # None

\* C9: replacing each space by an underscore is idempotent, and upload_file
\* and get_upload_status apply the same normalization: GET /status/f and
\* GET /status/normalize(f) return the same bodies in the same store state,
\* and the row a submission inserted is found under the name the client sent.
C9_NormalizationConsistent ==
    /\ \A f \in FileNames : Normal(Normal(f)) = Normal(f)
    /\ \A f \in FileNames : f # Normal(f) =>
          status_bodies(f, uploads) = status_bodies(Normal(f), uploads)
    /\ \A r \in Submitted : Task(r).row # 0 =>
          /\ Task(r).row \in fetchrow(uploads, Normal(Req(r).arg))
          /\ status_bodies(Req(r).arg, uploads) # { NotFoundBody }

\* C9 witness: a file whose name holds spaces has been uploaded, and the
\* status of the name with spaces and of the name with underscores is the
\* same 'success' body.
C9_Witness ==
    \E r \in Submitted :
        /\ Task(r).pc = "done"
        /\ Req(r).arg # Normal(Req(r).arg)
        /\ status_bodies(Req(r).arg, uploads) = { SuccessBody(Task(r).filename) }
        /\ status_bodies(Normal(Req(r).arg), uploads) = { SuccessBody(Task(r).filename) }

\* The uploads table holds a record with the normalized filename of f.
HasRecord(f) == \E i \in DOMAIN uploads : uploads[i].filename = Normal(f)

\* No exchange so far is a submission of the filename f.
NeverSubmitted(f) ==
    \A q \in Submitted : Normal(Req(q).arg) # Normal(f)

\* C10: GET /status/{filename} returns the not-found body exactly when no
\* record with the normalized filename exists, and {filename, status,
\* cloud_url} otherwise; a never-submitted filename always yields the
\* not-found body.
C10_NotFoundIffNoRecord ==
    /\ \A f \in FileNames :
          LET bodies == status_bodies(f, uploads)
          IN  /\ (NotFoundBody \in bodies) <=> ~HasRecord(f)
              /\ HasRecord(f) =>
                    \A b \in bodies : IsStatusBody(b) /\ b.filename = Normal(f)
              /\ NeverSubmitted(f) => bodies = { NotFoundBody }
    /\ \A r \in Queries : StatusAnswered(r) =>
          /\ Req(r).resp.status_code = 200
          /\ Req(r).resp.body = NotFoundBody \/ IsStatusBody(Req(r).resp.body)
          /\ NeverSubmitted(Req(r).arg) => Req(r).resp.body = NotFoundBody

\* C10 witness: the table holds a record of one filename, and a client that
\* asked for a never-submitted filename has received the not-found body.
C10_Witness ==
    \E r \in Queries :
        /\ StatusAnswered(r) /\ Req(r).pc = "done"
        /\ NeverSubmitted(Req(r).arg)
        /\ Req(r).got.body = NotFoundBody
        /\ uploads # << >>

----------------------------------------------------------------------------
(* C11, C12, C13: records of the same filename *)

Terminal == {"success", "failed"}

\* C11 (as claimed): once the status of a row of uploads is 'success' or
\* 'failed', no step changes it, also when the same filename is submitted
\* again.
C11_TerminalAbsorbing ==
    [][\A i \in DOMAIN uploads :
          uploads[i].status \in Terminal => uploads'[i].status = uploads[i].status]_vars

\* C12 (as claimed): the row inserted by a submission whose object-store
\* write raised never has status 'success', whatever other submissions of the
\* same filename do.
C12_FailedNeverSuccess ==
    \A r \in Submitted :
        (Task(r).row # 0 /\ Task(r).outcome = "raised")
            => uploads[Task(r).row].status # "success"

\* C13 (as claimed): the uploads table holds at most one row per filename.
C13_OneRecordPerFilename ==
    \A i, j \in DOMAIN uploads :
        uploads[i].filename = uploads[j].filename => i = j

----------------------------------------------------------------------------
(* C14 *)

\* The terminal UPDATE of the task of submission r is about to run or has run.
AtTerminalUpdate(r) == Task(r).pc \in {"UPDATE_success", "UPDATE_failed", "done"}

\* C14: when upload_to_gcs executes its terminal UPDATE for a filename, the
\* row it inserted is in the table under that filename, so the UPDATE matches
\* an existing row; once the UPDATE has run that row holds a terminal status,
\* and the table holds exactly the rows the tasks inserted (the UPDATE adds
\* none).
C14_UpdateFindsInsertedRow ==
    /\ \A r \in Submitted :
          AtTerminalUpdate(r) =>
              /\ Task(r).row \in fetchrow(uploads, Task(r).filename)
              /\ Task(r).pc = "done" => uploads[Task(r).row].status \in Terminal
    /\ Len(uploads) = Cardinality({ r \in Submitted : Task(r).row # 0 })

\* C14 witness: a task has run its terminal UPDATE and the row it inserted
\* went from 'uploading' to 'failed'; a second row shows nothing was inserted
\* by an UPDATE.
C14_Witness ==
    \E r \in Submitted :
        /\ Task(r).pc = "done"
        /\ Task(r).row # 0
        /\ uploads[Task(r).row].status = "failed"
        /\ Len(uploads) = 2

----------------------------------------------------------------------------
(* C15, C18, C20 *)

\* C15 (as claimed): for every accepted submission (upload or email) the
\* external operation is attempted at most once, and exactly once when the
\* background task has ended.
C15_AttemptedExactlyOnce ==
    \A r \in Submitted \cup Emails :
        /\ Task(r).attempts <= 1
        /\ TaskEnded(r) => Task(r).attempts = 1

\* C18 (as claimed): for every exchange whose handler returned a response,
\* what the middleware delivers to the client (status code and body) is what
\* the handler produced.
C18_ResponseUnchanged ==
    \A r \in Live :
        (Req(r).resp # NoResponse /\ Req(r).pc \in {"done", "error"})
            => Req(r).got = Req(r).resp

\* C20 (as claimed): a persisted 'failed' is there only if the external
\* operation raised, and a persisted 'success' only if it returned: for the
\* email log records of a task, and for the row of the only submission of a
\* filename.
C20_OutcomeMatches ==
    /\ \A r \in Emails : \A d \in EmailLogsOf(r) :
          /\ d.status = "failed" => Task(r).outcome = "raised"
          /\ d.status = "success" => Task(r).outcome = "ok"
    /\ \A r \in Submitted :
          (OnlySubmission(r) /\ Task(r).row # 0) =>
              LET status == uploads[Task(r).row].status
              IN  /\ status = "failed" => Task(r).outcome = "raised"
                  /\ status = "success" => Task(r).outcome = "ok"

----------------------------------------------------------------------------
(* C16 *)

\* C16 (as claimed): while the object-store write of an upload task or the
\* SMTP send of an email task is in progress, the handler of every request of
\* that service that is waiting to be answered can run.
C16_ExternalCallsYield ==
    /\ \A r \in Submitted :
          Task(r).pc = "in_upload_from_string" =>
              \A g \in Queries :
                  Req(g).pc = "call_next" => ENABLED get_upload_status(g)
    /\ \A r \in Emails :
          Task(r).pc = "sending" =>
              \A e \in Emails :
                  Req(e).pc = "call_next" => ENABLED send_email_endpoint(e)

----------------------------------------------------------------------------
(* C19 *)

\* The handles of a service.
Handles(service) ==
    IF service = "upload"
    THEN { app.upload.pool, app.upload.client, app.upload.storage_client }
    ELSE { app.email.client }

\* C19 (as claimed): every resource handle is created at most once, exactly
\* once when the service serves, and none is open after the shutdown of its
\* service.
C19_HandlesReleased ==
    \A service \in {"upload", "email"} :
        /\ \A h \in Handles(service) : h.created <= 1
        /\ app[service].phase = "serving" =>
              \A h \in Handles(service) : h.created = 1 /\ h.open
        /\ app[service].phase = "stopped" =>
              \A h \in Handles(service) : ~h.open

----------------------------------------------------------------------------
(* C17 *)

\* The audit records written for the exchange the middleware follows.
AuditWritten ==
    BagCardinality(IF audit.service = "upload" THEN upload_file_logs ELSE request_logs)

\* C17 (as claimed): whatever the request body and the response body (JSON,
\* other text, bytes that are not UTF-8), the exchange ends with one audit
\* record written and with the handler's response returned to the client.
C17_DecodeErrorsTolerated ==
    audit.pc \in {"done", "error"} =>
        /\ audit.pc = "done"
        /\ AuditWritten = 1
        /\ audit.got = audit.resp

====
